---- MODULE Spec2Model ----
(***************************************************************************)
(* Model of the assistant bot of src/main.py: the validated fields (Name,  *)
(* Phone, Birthday), Record, AddressBook, the command handlers wrapped by  *)
(* input_error, and the command loop of main().                            *)
(*                                                                         *)
(* Strings the program parses (tokens of an input line) are sequences of   *)
(* characters (see below); strings the program prints are TLA+ strings.    *)
(* A date is a record [y, m, d]; None is the record with y = 0, which no   *)
(* datetime can hold (MINYEAR is 1).                                       *)
(***************************************************************************)
EXTENDS Integers, Sequences, FiniteSets, TLC

\* ------------------------------------------------------------ characters

\* A character is a string: itself when it is a printing ASCII character or one
\* of \t \n \f \r, and otherwise "U+" with its code point in hexadecimal. Named
\* lists the characters of the second kind that the model knows, with ord().

DigitSeq == <<"0", "1", "2", "3", "4", "5", "6", "7", "8", "9">>
UpperSeq == <<"A", "B", "C", "D", "E", "F", "G", "H", "I", "J", "K", "L", "M",
              "N", "O", "P", "Q", "R", "S", "T", "U", "V", "W", "X", "Y", "Z">>
LowerSeq == <<"a", "b", "c", "d", "e", "f", "g", "h", "i", "j", "k", "l", "m",
              "n", "o", "p", "q", "r", "s", "t", "u", "v", "w", "x", "y", "z">>

Range(s) == {s[i] : i \in DOMAIN s}
IndexIn(s, c) == CHOOSE i \in DOMAIN s : s[i] = c

\* the printing ASCII characters, chr(32) to chr(126); the grave accent is named
Ascii ==
    <<" ", "!", "\"", "#", "$", "%", "&", "'", "(", ")", "*", "+", ",", "-", ".", "/",
      "0", "1", "2", "3", "4", "5", "6", "7", "8", "9", ":", ";", "<", "=", ">", "?",
      "@", "A", "B", "C", "D", "E", "F", "G", "H", "I", "J", "K", "L", "M", "N", "O",
      "P", "Q", "R", "S", "T", "U", "V", "W", "X", "Y", "Z", "[", "\\", "]", "^", "_",
      "U+0060", "a", "b", "c", "d", "e", "f", "g", "h", "i", "j", "k", "l", "m", "n", "o",
      "p", "q", "r", "s", "t", "u", "v", "w", "x", "y", "z", "{", "|", "}", "~">>
AsciiChars == Range(Ascii)
AsciiDigits == Range(DigitSeq)
AsciiLetters == Range(UpperSeq) \cup Range(LowerSeq)

\* <<character, ord(character)>>
Named ==
    <<<<"U+000B", 11>>, <<"U+001C", 28>>, <<"U+001F", 31>>, <<"U+007F", 127>>,
      <<"U+0085", 133>>, <<"U+00A0", 160>>, <<"U+2003", 8195>>, <<"U+200B", 8203>>,
      <<"U+3000", 12288>>, <<"U+0660", 1632>>, <<"U+0661", 1633>>, <<"U+0662", 1634>>,
      <<"U+0663", 1635>>, <<"U+0664", 1636>>, <<"U+0665", 1637>>, <<"U+0666", 1638>>,
      <<"U+0667", 1639>>, <<"U+0668", 1640>>, <<"U+0669", 1641>>, <<"U+0966", 2406>>,
      <<"U+FF11", 65297>>, <<"U+1D7D9", 120793>>, <<"U+00B2", 178>>, <<"U+2460", 9312>>,
      <<"U+00C9", 201>>, <<"U+00E9", 233>>, <<"U+0410", 1040>>, <<"U+0430", 1072>>,
      <<"U+212A", 8490>>, <<"U+0130", 304>>, <<"U+0307", 775>>, <<"U+03A3", 931>>,
      <<"U+03C3", 963>>, <<"U+03C2", 962>>, <<"U+00DF", 223>>, <<"U+01C5", 453>>,
      <<"U+01C6", 454>>, <<"U+02B0", 688>>, <<"U+00AA", 170>>>>
NamedChars == {Named[i][1] : i \in DOMAIN Named}
NamedCode(c) == Named[CHOOSE i \in DOMAIN Named : Named[i][1] = c][2]

\* ord() of a character
Code(c) ==
    IF c \in AsciiChars THEN 31 + IndexIn(Ascii, c)
    ELSE IF c = "\t" THEN 9
    ELSE IF c = "\n" THEN 10
    ELSE IF c = "\f" THEN 12
    ELSE IF c = "\r" THEN 13
    ELSE NamedCode(c)

\* the code points of the zeros of the decimal digits of Unicode (category Nd),
\* each followed by its 1 to 9
NdStarts ==
    <<48, 1632, 1776, 1984, 2406, 2534, 2662, 2790, 2918, 3046,
      3174, 3302, 3430, 3558, 3664, 3792, 3872, 4160, 4240, 6112,
      6160, 6470, 6608, 6784, 6800, 6992, 7088, 7232, 7248, 42528,
      43216, 43264, 43472, 43504, 43600, 44016, 65296, 66720, 68912, 69734,
      69872, 69942, 70096, 70384, 70736, 70864, 71248, 71360, 71472, 71904,
      72016, 72784, 73040, 73120, 92768, 92864, 93008, 120782, 120792, 120802,
      120812, 120822, 123200, 123632, 125264, 130032>>

\* Py_UNICODE_ISDECIMAL of a code point
IsDecimal(n) == \E i \in DOMAIN NdStarts : n - NdStarts[i] \in 0..9

\* \d of the re module on str: every decimal digit of Unicode
IsDigit(c) == c \in AsciiDigits \/ (c \in NamedChars /\ IsDecimal(NamedCode(c)))

\* int() of one digit
DigitVal(c) ==
    IF c \in AsciiDigits THEN IndexIn(DigitSeq, c) - 1
    ELSE NamedCode(c)
             - NdStarts[CHOOSE i \in DOMAIN NdStarts : NamedCode(c) - NdStarts[i] \in 0..9]

\* the code points of Py_UNICODE_ISSPACE
SpaceCodes ==
    {9, 10, 11, 12, 13, 28, 29, 30, 31, 32, 133, 160,
     5760, 8192, 8193, 8194, 8195, 8196, 8197, 8198, 8199, 8200, 8201, 8202,
     8232, 8233, 8239, 8287, 12288}

\* the white space of str.strip() and str.split()
IsSpace(c) ==
    \/ c \in {" ", "\t", "\n", "\f", "\r"}
    \/ c \in NamedChars /\ NamedCode(c) \in SpaceCodes

\* <<character, str.lower() of it>> for the named characters that str.lower() changes
LowerNamed ==
    <<<<"U+00C9", <<"U+00E9">>>>, <<"U+0410", <<"U+0430">>>>,
      <<"U+212A", <<"k">>>>, <<"U+0130", <<"i", "U+0307">>>>,
      <<"U+03A3", <<"U+03C3">>>>, <<"U+01C5", <<"U+01C6">>>>>>

\* str.lower() of one character on its own
LowerChar(c) ==
    IF c \in Range(UpperSeq) THEN <<LowerSeq[IndexIn(UpperSeq, c)]>>
    ELSE IF \E i \in DOMAIN LowerNamed : LowerNamed[i][1] = c
    THEN LowerNamed[CHOOSE i \in DOMAIN LowerNamed : LowerNamed[i][1] = c][2]
    ELSE <<c>>

\* the characters of the model with the property Case_Ignorable
CaseIgnorable ==
    {"'", ".", ":", "^", "U+0060", "U+200B", "U+0307", "U+02B0"}

\* the characters of the model with the property Cased that are not Case_Ignorable
Cased ==
    AsciiLetters \cup {"U+00C9", "U+00E9", "U+0410", "U+0430", "U+212A", "U+0130", "U+03A3", "U+03C3",
                       "U+03C2", "U+00DF", "U+01C5", "U+01C6", "U+00AA"}

\* handle_capital_sigma of str.lower(): the capital sigma at s[i] follows a cased
\* character and no cased character follows it, Case_Ignorable ones skipped
FinalSigma(s, i) ==
    /\ \E j \in 1..(i - 1) :
           /\ s[j] \in Cased
           /\ \A k \in (j + 1)..(i - 1) : s[k] \in CaseIgnorable
    /\ ~\E j \in (i + 1)..Len(s) :
           /\ s[j] \in Cased
           /\ \A k \in (i + 1)..(j - 1) : s[k] \in CaseIgnorable

\* str.lower()
RECURSIVE LowerFrom(_, _)
LowerFrom(s, i) ==
    IF i > Len(s) THEN <<>>
    ELSE (IF s[i] = "U+03A3"
          THEN (IF FinalSigma(s, i) THEN <<"U+03C2">> ELSE <<"U+03C3">>)
          ELSE LowerChar(s[i])) \o LowerFrom(s, i + 1)
Lower(s) == LowerFrom(s, 1)

\* the str a sequence of characters stands for
RECURSIVE Str(_)
Str(s) == IF s = <<>> THEN "" ELSE s[1] \o Str(Tail(s))

\* str < str of Python: lexicographic by code point
RECURSIVE StrLess(_, _)
StrLess(a, b) ==
    IF b = <<>> THEN FALSE
    ELSE IF a = <<>> THEN TRUE
    ELSE IF Code(a[1]) # Code(b[1]) THEN Code(a[1]) < Code(b[1])
    ELSE StrLess(Tail(a), Tail(b))

\* int() of a sequence of digits
RECURSIVE IntOf(_)
IntOf(s) == IF s = <<>> THEN 0 ELSE 10 * IntOf(SubSeq(s, 1, Len(s) - 1)) + DigitVal(s[Len(s)])

\* str() of a natural number, as a TLA+ string
RECURSIVE NatStr(_)
NatStr(n) == IF n < 10 THEN DigitSeq[n + 1] ELSE NatStr(n \div 10) \o DigitSeq[(n % 10) + 1]

\* ------------------------------------------------------------ dates

None == [y |-> 0, m |-> 0, d |-> 0]

\* calendar.isleap / datetime._is_leap
IsLeap(y) == (y % 4 = 0) /\ ((y % 100 # 0) \/ (y % 400 = 0))

\* datetime._days_in_month
DaysInMonth(y, m) ==
    IF m = 2 THEN (IF IsLeap(y) THEN 29 ELSE 28)
    ELSE IF m \in {4, 6, 9, 11} THEN 30 ELSE 31

\* the check of the date constructor (MINYEAR..MAXYEAR, month, day)
ValidDate(y, m, d) ==
    /\ y >= 1 /\ y <= 9999
    /\ m >= 1 /\ m <= 12
    /\ d >= 1 /\ d <= DaysInMonth(y, m)

\* datetime._days_before_year
DaysBeforeYear(y) == (y - 1) * 365 + ((y - 1) \div 4) - ((y - 1) \div 100) + ((y - 1) \div 400)

\* datetime._days_before_month
RECURSIVE DaysBeforeMonth(_, _)
DaysBeforeMonth(y, m) == IF m = 1 THEN 0 ELSE DaysBeforeMonth(y, m - 1) + DaysInMonth(y, m - 1)

\* date.toordinal(): 0001-01-01 is day 1
ToOrdinal(dt) == DaysBeforeYear(dt.y) + DaysBeforeMonth(dt.y, dt.m) + dt.d

\* date.fromordinal() (datetime._ord2ymd)
FromOrdinal(n) ==
    LET n0 == n - 1
        n400 == n0 \div 146097
        r400 == n0 % 146097
        n100 == r400 \div 36524
        r100 == r400 % 36524
        n4 == r100 \div 1461
        r4 == r100 % 1461
        n1 == r4 \div 365
        r1 == r4 % 365
        year == n400 * 400 + 1 + n100 * 100 + n4 * 4 + n1
        month == CHOOSE m \in 1..12 :
                     /\ DaysBeforeMonth(year, m) <= r1
                     /\ r1 < DaysBeforeMonth(year, m) + DaysInMonth(year, m)
    IN  IF n1 = 4 \/ n100 = 4
        THEN [y |-> year - 1, m |-> 12, d |-> 31]
        ELSE [y |-> year, m |-> month, d |-> r1 - DaysBeforeMonth(year, month) + 1]

\* date.weekday(): Monday is 0, Sunday is 6
Weekday(dt) == (ToOrdinal(dt) + 6) % 7

\* date + timedelta(days = k)
AddDays(dt, k) == FromOrdinal(ToOrdinal(dt) + k)

\* (a - b).days
DaysBetween(a, b) == ToOrdinal(a) - ToOrdinal(b)

\* a < b on dates
DateLess(a, b) == ToOrdinal(a) < ToOrdinal(b)

\* two digits, zero padded: %d and %m of strftime
Pad2(n) == IF n < 10 THEN "0" \o NatStr(n) ELSE NatStr(n)

\* datetime.strftime("%d.%m.%Y"): the C library's %Y does not pad the year
StrfTime(dt) == Pad2(dt.d) \o "." \o Pad2(dt.m) \o "." \o NatStr(dt.y)

\* ------------------------------------------------------------ fields

PhoneLen == 10

At(s, i) == IF i \in DOMAIN s THEN s[i] ELSE ""

\* PHONE_REGEX.match in place of fullmatch: ten digits, then anything
PhoneMatchesPrefix(s) == Len(s) >= PhoneLen /\ \A i \in 1..PhoneLen : IsDigit(s[i])

\* PHONE_REGEX.fullmatch(s): \d{10} and nothing else
PhoneMatches(s) == Len(s) = PhoneLen /\ \A i \in DOMAIN s : IsDigit(s[i])

\* %d of _strptime: 3[0-1]|[1-2]\d|0[1-9]|[1-9]| [1-9], by the length matched
DayMatch(s, p, n) ==
    LET a == At(s, p)
        b == At(s, p + 1)
    IN  IF n = 2
        THEN \/ a = "3" /\ b \in {"0", "1"}
             \/ a \in {"1", "2"} /\ IsDigit(b)
             \/ a \in {"0", " "} /\ b \in AsciiDigits \ {"0"}
        ELSE a \in AsciiDigits \ {"0"}

\* %m of _strptime: 1[0-2]|0[1-9]|[1-9], by the length matched
MonthMatch(s, p, n) ==
    LET a == At(s, p)
        b == At(s, p + 1)
    IN  IF n = 2
        THEN \/ a = "1" /\ b \in {"0", "1", "2"}
             \/ a = "0" /\ b \in AsciiDigits \ {"0"}
        ELSE a \in AsciiDigits \ {"0"}

\* the ways the regex of "%d.%m.%Y" matches a prefix of s: <<day length, month length>>
FormatMatches(s) ==
    {w \in {1, 2} \X {1, 2} :
        /\ DayMatch(s, 1, w[1])
        /\ At(s, w[1] + 1) = "."
        /\ MonthMatch(s, w[1] + 2, w[2])
        /\ At(s, w[1] + w[2] + 2) = "."
        /\ \A k \in 3..6 : IsDigit(At(s, w[1] + w[2] + k))}

\* int() of a matched group (int() ignores the blank of " 5")
GroupInt(s) == IntOf(SelectSeq(s, IsDigit))

\* datetime.strptime(s, "%d.%m.%Y"): the date, or None for ValueError
StrpTime(s) ==
    IF FormatMatches(s) = {} THEN None
    ELSE LET w == CHOOSE v \in FormatMatches(s) : TRUE
             day == GroupInt(SubSeq(s, 1, w[1]))
             month == GroupInt(SubSeq(s, w[1] + 2, w[1] + w[2] + 1))
             year == GroupInt(SubSeq(s, w[1] + w[2] + 3, w[1] + w[2] + 6))
         IN  IF Len(s) # w[1] + w[2] + 6 THEN None     \* unconverted data remains
             ELSE IF ~ValidDate(year, month, day) THEN None
             ELSE [y |-> year, m |-> month, d |-> day]

\* date.replace(year = y): the date, or None for ValueError
ReplaceYear(dt, year) ==
    IF ValidDate(year, dt.m, dt.d) THEN [y |-> year, m |-> dt.m, d |-> dt.d] ELSE None

\* ------------------------------------------------------------ results of a call

\* a call returns a value, or raises ValueError or KeyError with a message
Returns(b, t) == [book |-> b, raised |-> "", text |-> t]
Raises(b, e, t) == [book |-> b, raised |-> e, text |-> t]

InvalidPhone == "Phone number must contain exactly 10 digits."
InvalidDate == "Invalid date format. Use DD.MM.YYYY"
PhoneNotFound == "Phone number to edit not found."
PhoneToRemoveNotFound == "Phone number not found."
ContactNotFound == "Contact not found."
DayOutOfRange == "day is out of range for month"

\* ------------------------------------------------------------ Record

Record(name) == [name |-> name, phones |-> <<>>, birthday |-> None]

\* find_phone returning the last Phone whose value is phone
find_phone_last(rec, phone) ==
    IF \E i \in DOMAIN rec.phones : rec.phones[i] = phone
    THEN CHOOSE i \in DOMAIN rec.phones :
             /\ rec.phones[i] = phone
             /\ \A j \in (i + 1)..Len(rec.phones) : rec.phones[j] # phone
    ELSE 0

\* Record.find_phone: the position of the first Phone whose value is phone, 0 for None
find_phone(rec, phone) ==
    IF \E i \in DOMAIN rec.phones : rec.phones[i] = phone
    THEN CHOOSE i \in DOMAIN rec.phones :
             /\ rec.phones[i] = phone
             /\ \A j \in 1..(i - 1) : rec.phones[j] # phone
    ELSE 0

\* add_phone that skips a number the Record already has
add_phone_unique(rec, phone) ==
    IF ~PhoneMatches(phone)
    THEN [ok |-> FALSE, rec |-> rec, error |-> InvalidPhone]
    ELSE IF \E i \in DOMAIN rec.phones : rec.phones[i] = phone
    THEN [ok |-> TRUE, rec |-> rec, error |-> ""]
    ELSE [ok |-> TRUE, rec |-> [rec EXCEPT !.phones = Append(@, phone)], error |-> ""]

\* Record.add_phone: [ok, rec, error]
add_phone(rec, phone) ==
    IF ~PhoneMatches(phone)
    THEN [ok |-> FALSE, rec |-> rec, error |-> InvalidPhone]
    ELSE [ok |-> TRUE, rec |-> [rec EXCEPT !.phones = Append(@, phone)], error |-> ""]

\* Record.remove_phone: [ok, rec, error]; list.remove takes out the first entry
\* equal to the Phone found, and a Phone is equal to itself only
remove_phone(rec, phone) ==
    LET phone_obj == find_phone(rec, phone)
    IN  IF phone_obj = 0
        THEN [ok |-> FALSE, rec |-> rec, error |-> PhoneToRemoveNotFound]
        ELSE [ok |-> TRUE,
              rec |-> [rec EXCEPT !.phones = SubSeq(@, 1, phone_obj - 1)
                                                 \o SubSeq(@, phone_obj + 1, Len(@))],
              error |-> ""]

\* edit_phone that stores the new value before it is validated
edit_phone_early_write(rec, existing_phone_number, new_phone_number) ==
    IF find_phone(rec, existing_phone_number) = 0
    THEN [ok |-> FALSE, rec |-> rec, error |-> PhoneNotFound]
    ELSE [ok |-> PhoneMatches(new_phone_number),
          rec |-> [rec EXCEPT !.phones[find_phone(rec, existing_phone_number)] = new_phone_number],
          error |-> IF PhoneMatches(new_phone_number) THEN "" ELSE InvalidPhone]

\* Record.edit_phone: [ok, rec, error]
edit_phone(rec, existing_phone_number, new_phone_number) ==
    LET phone_to_edit == find_phone(rec, existing_phone_number)
    IN  IF phone_to_edit = 0
        THEN [ok |-> FALSE, rec |-> rec, error |-> PhoneNotFound]
        ELSE IF ~PhoneMatches(new_phone_number)
        THEN [ok |-> FALSE, rec |-> rec, error |-> InvalidPhone]
        ELSE [ok |-> TRUE,
              rec |-> [rec EXCEPT !.phones[phone_to_edit] = new_phone_number],
              error |-> ""]

\* Birthday(value) for a str: the datetime parsed, or None for the ValueError
\* "Invalid date format. Use DD.MM.YYYY"
Birthday(value) == StrpTime(value)

\* the assignment of Record.add_birthday, given the Birthday constructed
set_birthday(rec, parsed) ==
    IF parsed = None
    THEN [ok |-> FALSE, rec |-> rec, error |-> InvalidDate]
    ELSE [ok |-> TRUE, rec |-> [rec EXCEPT !.birthday = parsed], error |-> ""]

\* Record.add_birthday: [ok, rec, error]
record_add_birthday(rec, birthday) == set_birthday(rec, Birthday(birthday))

\* the birthday's month and day in today's year, moved to the next year when it
\* has passed; None when date.replace raises ValueError
next_birthday(birthday, today) ==
    LET this_year == ReplaceYear(birthday, today.y)
    IN  IF this_year = None THEN None
        ELSE IF DateLess(this_year, today) THEN ReplaceYear(birthday, today.y + 1)
        ELSE this_year

\* Record.days_to_birthday: [kind |-> "None" | "int" | "ValueError", days]
days_to_birthday(rec, today) ==
    IF rec.birthday = None THEN [kind |-> "None", days |-> 0]
    ELSE IF next_birthday(rec.birthday, today) = None THEN [kind |-> "ValueError", days |-> 0]
    ELSE [kind |-> "int", days |-> DaysBetween(next_birthday(rec.birthday, today), today)]

\* "; ".join(phone.value for phone in phones)
RECURSIVE JoinPhones(_)
JoinPhones(phones) ==
    IF phones = <<>> THEN ""
    ELSE IF Len(phones) = 1 THEN Str(phones[1])
    ELSE Str(phones[1]) \o "; " \o JoinPhones(Tail(phones))

\* Record.__str__
RecordStr(rec) ==
    "Contact name: " \o Str(rec.name) \o ", phones: " \o JoinPhones(rec.phones)
        \o (IF rec.birthday # None THEN ", birthday: " \o StrfTime(rec.birthday) ELSE "")

\* ------------------------------------------------------------ AddressBook

\* the book is the sequence of its Records in the dict's (insertion) order
Has(b, name) == \E i \in DOMAIN b : b[i].name = name
Slot(b, name) == CHOOSE i \in DOMAIN b : b[i].name = name

\* AddressBook.find, for a name the book has
find(b, name) == b[Slot(b, name)]

\* AddressBook.add_record
add_record(b, rec) ==
    IF Has(b, rec.name) THEN [b EXCEPT ![Slot(b, rec.name)] = rec] ELSE Append(b, rec)

\* AddressBook.delete: the book without the Record of the name, or the KeyError
delete(b, name) ==
    IF Has(b, name)
    THEN Returns(SubSeq(b, 1, Slot(b, name) - 1) \o SubSeq(b, Slot(b, name) + 1, Len(b)), "")
    ELSE Raises(b, "KeyError", "Record with name '" \o Str(name) \o "' not found.")

\* put back a Record the handler changed in place
store(b, rec) == [b EXCEPT ![Slot(b, rec.name)] = rec]

\* ------------------------------------------------------------ commands

\* the Command enum with COMMAND_TEMPLATES, in the order of the dict
Command == <<
    [name |-> "add", value |-> <<"a", "d", "d">>,
     template |-> "add <name> <10-digit phone>"],
    [name |-> "change", value |-> <<"c", "h", "a", "n", "g", "e">>,
     template |-> "change <name> <old-phone> <new-phone>"],
    [name |-> "phone", value |-> <<"p", "h", "o", "n", "e">>,
     template |-> "phone <name>"],
    [name |-> "all", value |-> <<"a", "l", "l">>,
     template |-> "all"],
    [name |-> "add-birthday", value |-> <<"a", "d", "d", "-", "b", "i", "r", "t", "h", "d", "a", "y">>,
     template |-> "add-birthday <name> <DD.MM.YYYY>"],
    [name |-> "show-birthday", value |-> <<"s", "h", "o", "w", "-", "b", "i", "r", "t", "h", "d", "a", "y">>,
     template |-> "show-birthday <name>"],
    [name |-> "birthdays", value |-> <<"b", "i", "r", "t", "h", "d", "a", "y", "s">>,
     template |-> "birthdays"],
    [name |-> "hello", value |-> <<"h", "e", "l", "l", "o">>,
     template |-> "hello"],
    [name |-> "help", value |-> <<"h", "e", "l", "p">>,
     template |-> "help"],
    [name |-> "close", value |-> <<"c", "l", "o", "s", "e">>,
     template |-> "close"],
    [name |-> "exit", value |-> <<"e", "x", "i", "t">>,
     template |-> "exit"]>>

Template(name) == Command[CHOOSE i \in DOMAIN Command : Command[i].name = name].template

\* _command_usage_summary
RECURSIVE UsageFrom(_)
UsageFrom(i) ==
    IF i = Len(Command) THEN "- " \o Command[i].template
    ELSE "- " \o Command[i].template \o "\n" \o UsageFrom(i + 1)
command_usage_summary == UsageFrom(1)

\* format_unknown_command_message; <<>> stands for a raw_command of None
format_unknown_command_message(raw_command) ==
    (IF raw_command # <<>> THEN "Unknown command '" \o Str(raw_command) \o "'." ELSE "Unknown command.")
        \o "\nUse one of the following patterns:\n" \o command_usage_summary

\* str.split(): the maximal runs of characters that are not white space
RECURSIVE SplitFrom(_, _, _)
SplitFrom(s, i, cur) ==
    IF i > Len(s) THEN (IF cur = <<>> THEN <<>> ELSE <<cur>>)
    ELSE IF IsSpace(s[i])
    THEN (IF cur = <<>> THEN SplitFrom(s, i + 1, <<>>) ELSE <<cur>> \o SplitFrom(s, i + 1, <<>>))
    ELSE SplitFrom(s, i + 1, Append(cur, s[i]))
Split(s) == SplitFrom(s, 1, <<>>)

\* parse_input: [command, args, original]; a command of "None" is Python's None
parse_input(user_input) ==
    LET parts == Split(user_input)
    IN  IF parts = <<>> THEN [command |-> "None", args |-> <<>>, original |-> <<>>]
        ELSE LET command_str == Lower(parts[1])
             IN  [command |-> IF \E i \in DOMAIN Command : Command[i].value = command_str
                              THEN Command[CHOOSE i \in DOMAIN Command :
                                               Command[i].value = command_str].name
                              ELSE "None",
                  args |-> Tail(parts),
                  original |-> parts[1]]

\* input_error without its `except KeyError` clause
input_error_no_keyerror(r) ==
    IF r.raised \in {"ValueError", "IndexError"} THEN Returns(r.book, r.text) ELSE r

\* input_error: what the wrapped handler returns, or str(error) for the
\* exceptions it catches (str() of a KeyError is the repr of its message);
\* any other exception goes on to the caller
input_error(r) ==
    IF r.raised \in {"ValueError", "IndexError"} THEN Returns(r.book, r.text)
    ELSE IF r.raised = "KeyError" THEN Returns(r.book, "'" \o r.text \o "'")
    ELSE r

\* ------------------------------------------------------------ handlers

\* add_contact that creates the Record only once the phone is valid
add_contact_atomic(args, b) ==
    IF Len(args) < 2
    THEN Raises(b, "ValueError", "Missing arguments. Usage: " \o Template("add"))
    ELSE IF ~PhoneMatches(args[2]) THEN Raises(b, "ValueError", InvalidPhone)
    ELSE IF Has(b, args[1])
    THEN Returns(store(b, add_phone(find(b, args[1]), args[2]).rec), "Contact updated.")
    ELSE Returns(Append(b, add_phone(Record(args[1]), args[2]).rec), "Contact added.")

\* add_contact, before input_error
add_contact(args, b) ==
    IF Len(args) < 2
    THEN Raises(b, "ValueError", "Missing arguments. Usage: " \o Template("add"))
    ELSE LET name == args[1]
             phone == args[2]
             found == Has(b, name)
             b1 == IF found THEN b ELSE add_record(b, Record(name))
             message == IF found THEN "Contact updated." ELSE "Contact added."
             added == add_phone(find(b1, name), phone)
         IN  IF ~found /\ name = <<>> THEN Raises(b, "ValueError", "Name cannot be empty.")
             ELSE IF phone = <<>> THEN Returns(b1, message)
             ELSE IF ~added.ok THEN Raises(store(b1, added.rec), "ValueError", added.error)
             ELSE Returns(store(b1, added.rec), message)

\* change_phone, before input_error
change_phone(args, b) ==
    IF Len(args) < 3
    THEN Raises(b, "ValueError", "Missing arguments. Usage: " \o Template("change"))
    ELSE IF ~Has(b, args[1]) THEN Raises(b, "KeyError", ContactNotFound)
    ELSE LET edited == edit_phone(find(b, args[1]), args[2], args[3])
         IN  IF ~edited.ok THEN Raises(store(b, edited.rec), "ValueError", edited.error)
             ELSE Returns(store(b, edited.rec), "Phone number updated.")

\* show_phone, before input_error
show_phone(args, b) ==
    IF args = <<>>
    THEN Raises(b, "ValueError", "Missing contact name. Usage: " \o Template("phone"))
    ELSE IF ~Has(b, args[1]) THEN Raises(b, "KeyError", ContactNotFound)
    ELSE IF find(b, args[1]).phones = <<>> THEN Returns(b, "No phone numbers for this contact.")
    ELSE Returns(b, JoinPhones(find(b, args[1]).phones))

\* "\n".join(str(record) for record in book.data.values())
RECURSIVE JoinRecords(_)
JoinRecords(b) ==
    IF Len(b) = 1 THEN RecordStr(b[1]) ELSE RecordStr(b[1]) \o "\n" \o JoinRecords(Tail(b))

\* show_all, before input_error
show_all(args, b) ==
    IF args # <<>>
    THEN Raises(b, "ValueError", "No extra arguments expected. Usage: " \o Template("all"))
    ELSE IF b = <<>> THEN Returns(b, "Address book is empty.")
    ELSE Returns(b, JoinRecords(b))

\* add_birthday, before input_error
add_birthday(args, b) ==
    IF Len(args) < 2
    THEN Raises(b, "ValueError", "Missing arguments. Usage: " \o Template("add-birthday"))
    ELSE LET name == args[1]
             found == Has(b, name)
             b1 == IF found THEN b ELSE add_record(b, Record(name))
             set == record_add_birthday(find(b1, name), args[2])
         IN  IF ~found /\ name = <<>> THEN Raises(b, "ValueError", "Name cannot be empty.")
             ELSE IF ~set.ok THEN Raises(store(b1, set.rec), "ValueError", set.error)
             ELSE Returns(store(b1, set.rec), "Birthday added.")

\* show_birthday, before input_error
show_birthday(args, b) ==
    IF args = <<>>
    THEN Raises(b, "ValueError", "Missing contact name. Usage: " \o Template("show-birthday"))
    ELSE IF ~Has(b, args[1]) THEN Raises(b, "KeyError", ContactNotFound)
    ELSE IF find(b, args[1]).birthday = None THEN Returns(b, "Birthday not set.")
    ELSE Returns(b, StrfTime(find(b, args[1]).birthday))

\* show_commands, before input_error
show_commands(args, b) ==
    IF args # <<>>
    THEN Raises(b, "ValueError", "No extra arguments expected. Usage: " \o Template("help"))
    ELSE Returns(b, "Available commands:\n" \o command_usage_summary)

\* the weekend shift with `> 5` for `>= 5`: only a Sunday moves
congratulation_date_sunday(next) ==
    IF Weekday(next) > 5 THEN AddDays(next, 7 - Weekday(next)) ELSE next

\* the weekend shift of birthdays: a Saturday or Sunday moves to the Monday after
congratulation_date(next) ==
    IF Weekday(next) >= 5 THEN AddDays(next, 7 - Weekday(next)) ELSE next

\* whether the loop of birthdays raises: date.replace fails for some Record
birthdays_raises(b, today) ==
    \E i \in DOMAIN b : b[i].birthday # None /\ next_birthday(b[i].birthday, today) = None

\* the dict `upcoming` of birthdays once its loop has ended, as a set of [name, day]
birthdays_upcoming(b, today) ==
    {[name |-> b[i].name, day |-> congratulation_date(next_birthday(b[i].birthday, today))] :
        i \in {j \in DOMAIN b :
                 /\ b[j].birthday # None
                 /\ next_birthday(b[j].birthday, today) # None
                 /\ DaysBetween(next_birthday(b[j].birthday, today), today) >= 0
                 /\ DaysBetween(next_birthday(b[j].birthday, today), today) < 7}}

\* sorted() of a set of dates
RECURSIVE SortedDays(_)
SortedDays(S) ==
    IF S = {} THEN <<>>
    ELSE LET first == CHOOSE x \in S : \A y \in S : ~DateLess(y, x)
         IN  <<first>> \o SortedDays(S \ {first})

\* sorted() of a set of names
RECURSIVE SortedNames(_)
SortedNames(S) ==
    IF S = {} THEN <<>>
    ELSE LET first == CHOOSE x \in S : \A y \in S : ~StrLess(y, x)
         IN  <<first>> \o SortedNames(S \ {first})

\* ", ".join(names)
RECURSIVE JoinNames(_)
JoinNames(names) ==
    IF Len(names) = 1 THEN Str(names[1]) ELSE Str(names[1]) \o ", " \o JoinNames(Tail(names))

\* the lines of birthdays, one per congratulation date, joined by "\n"
RECURSIVE BirthdayLines(_, _)
BirthdayLines(up, days) ==
    LET line1 == StrfTime(days[1]) \o ": "
                     \o JoinNames(SortedNames({e.name : e \in {x \in up : x.day = days[1]}}))
    IN  IF Len(days) = 1 THEN line1 ELSE line1 \o "\n" \o BirthdayLines(up, Tail(days))

\* birthdays, before input_error
birthdays(args, b, today) ==
    IF args # <<>>
    THEN Raises(b, "ValueError", "No extra arguments expected. Usage: " \o Template("birthdays"))
    ELSE IF birthdays_raises(b, today) THEN Raises(b, "ValueError", DayOutOfRange)
    ELSE IF birthdays_upcoming(b, today) = {} THEN Returns(b, "No upcoming birthdays.")
    ELSE Returns(b, BirthdayLines(birthdays_upcoming(b, today),
                                  SortedDays({e.day : e \in birthdays_upcoming(b, today)})))

\* the entries the text birthdays returned lists
birthdays_listed(args, b, today) ==
    IF args # <<>> \/ birthdays_raises(b, today) THEN {} ELSE birthdays_upcoming(b, today)

\* ------------------------------------------------------------ get_upcoming_birthdays

\* the ways the regex of "%Y.%m.%d" matches a prefix of s: <<month length, day length>>
FormatMatchesYmd(s) ==
    {w \in {1, 2} \X {1, 2} :
        /\ \A k \in 1..4 : IsDigit(At(s, k))
        /\ At(s, 5) = "."
        /\ MonthMatch(s, 6, w[1])
        /\ At(s, w[1] + 6) = "."
        /\ DayMatch(s, w[1] + 7, w[2])}

\* datetime.strptime(s, "%Y.%m.%d"): the date, or None for ValueError; the regex
\* tries the two-character days before the one-character day
StrpTimeYmd(s) ==
    IF FormatMatchesYmd(s) = {} THEN None
    ELSE LET w == CHOOSE v \in FormatMatchesYmd(s) : \A u \in FormatMatchesYmd(s) : u[2] <= v[2]
             year == GroupInt(SubSeq(s, 1, 4))
             month == GroupInt(SubSeq(s, 6, w[1] + 5))
             day == GroupInt(SubSeq(s, w[1] + 7, w[1] + w[2] + 6))
         IN  IF Len(s) # w[1] + w[2] + 6 THEN None     \* unconverted data remains
             ELSE IF ~ValidDate(year, month, day) THEN None
             ELSE [y |-> year, m |-> month, d |-> day]

\* datetime.strftime("%Y.%m.%d")
StrfTimeYmd(dt) == NatStr(dt.y) \o "." \o Pad2(dt.m) \o "." \o Pad2(dt.d)

\* birthday_this_year of one user, `now` being datetime.today().date(): None when
\* strptime or date.replace raises
birthday_this_year(user, now) ==
    LET birthday_date == StrpTimeYmd(user.birthday)
    IN  IF birthday_date = None THEN None
        ELSE IF ReplaceYear(birthday_date, now.y) = None THEN None
        ELSE IF DateLess(ReplaceYear(birthday_date, now.y), now)
        THEN ReplaceYear(ReplaceYear(birthday_date, now.y), now.y + 1)
        ELSE ReplaceYear(birthday_date, now.y)

\* what one turn of the loop appends for a birthday_this_year that is a date
upcoming_entry(name, this_year, now) ==
    LET delta_days == DaysBetween(this_year, now)
        days_to_monday == 7 - Weekday(this_year)
    IN  IF 0 <= delta_days /\ delta_days < 7
        THEN <<[name |-> name,
                congratulation_date |->
                    StrfTimeYmd(IF Weekday(this_year) >= 5
                                THEN AddDays(this_year, days_to_monday)
                                ELSE this_year)]>>
        ELSE <<>>

\* get_upcoming_birthdays: [raised, entries]; nothing catches its ValueError
RECURSIVE get_upcoming_birthdays(_, _)
get_upcoming_birthdays(users, now) ==
    IF users = <<>> THEN [raised |-> FALSE, entries |-> <<>>]
    ELSE IF birthday_this_year(users[1], now) = None
    THEN [raised |-> TRUE, entries |-> <<>>]
    ELSE IF get_upcoming_birthdays(Tail(users), now).raised
    THEN [raised |-> TRUE, entries |-> <<>>]
    ELSE [raised |-> FALSE,
          entries |-> upcoming_entry(users[1].name, birthday_this_year(users[1], now), now)
                          \o get_upcoming_birthdays(Tail(users), now).entries]

\* ------------------------------------------------------------ inputs

MaxPhones == 2

NameAl == <<"a", "l">>
NameBo == <<"B", "o">>
NameZed == <<"z", "e", "d">>
Names == {NameAl, NameBo}

Phone1 == <<"0", "1", "2", "3", "4", "5", "6", "7", "8", "9">>
\* ten Arabic-Indic digits, 9 down to 0
Phone2 == <<"U+0669", "U+0668", "U+0667", "U+0666", "U+0665",
            "U+0664", "U+0663", "U+0662", "U+0661", "U+0660">>
Short == <<"0", "1", "2", "3", "4", "5", "6", "7", "8">>
Long == <<"0", "1", "2", "3", "4", "5", "6", "7", "8", "9", "0">>
Dashed == <<"0", "1", "2", "3", "4", "-", "6", "7", "8", "9">>
ValidPhones == {Phone1, Phone2}
BadPhones == {Short, Long, Dashed}

\* ten characters, one of them the superscript two, which is no decimal digit
Superscript == <<"0", "1", "2", "3", "4", "5", "6", "7", "8", "U+00B2">>

\* one input line: the words, one blank between them
RECURSIVE Words(_)
Words(ws) == IF Len(ws) = 1 THEN ws[1] ELSE ws[1] \o <<" ">> \o Words(Tail(ws))

Kw(name) == Command[CHOOSE i \in DOMAIN Command : Command[i].name = name].value

BdayLeap == <<"2", "9", ".", "0", "2", ".", "2", "0", "2", "4">>
BdayImpossible == <<"3", "1", ".", "0", "2", ".", "2", "0", "2", "4">>

\* the lines typed in the command loop
Lines ==
    {<<>>, <<" ", "\t">>}
    \cup {Kw("close"), <<"E", "X", "I", "T">>, Words(<<<<"C", "l", "o", "s", "e">>, NameAl>>)}
    \cup {Kw("exit") \o <<"\t">> \o NameAl, <<"U+00A0">> \o Kw("hello") \o <<"\r">>}
    \cup {Kw("hello"), Words(<<<<"H", "e", "l", "p">>, NameAl>>), Kw("help")}
    \cup {<<"f", "o", "o">>, <<"c", "l", "o", "s", "e", "d">>, <<"U+00C9", "X", "I", "T">>}
    \cup {Kw("all"), Words(<<Kw("all"), NameAl>>), Kw("birthdays"), Words(<<Kw("birthdays"), NameAl>>)}
    \cup {Kw("add"), Words(<<Kw("add"), NameAl>>), <<" ">> \o Words(<<<<"A", "D", "D">>, NameBo, Phone1, Phone2>>)}
    \cup {Words(<<Kw("add"), NameAl, p>>) : p \in ValidPhones \cup BadPhones}
    \cup {Words(<<Kw("add"), NameBo, Dashed>>), Words(<<Kw("add"), NameBo, Superscript>>)}
    \cup {Words(<<Kw("change"), NameAl, Phone1>>)}
    \cup {Words(<<Kw("change"), NameAl, o, p>>) :
              o \in ValidPhones \cup {Dashed}, p \in ValidPhones \cup {Short, Dashed}}
    \cup {Words(<<Kw("change"), NameBo, Phone1, Long>>), Words(<<Kw("change"), NameBo, Phone2, Phone1>>)}
    \cup {Kw("phone"), Kw("show-birthday"), Words(<<Kw("add-birthday"), NameAl>>)}
    \cup {Words(<<Kw("phone"), n>>) : n \in Names}
    \cup {Words(<<Kw("show-birthday"), n>>) : n \in Names}
    \cup {Words(<<Kw("add-birthday"), NameAl, s>>) : s \in {BdayLeap, BdayImpossible}}
    \cup {Words(<<Kw("add-birthday"), NameBo, BdayImpossible>>)}

\* the days the command loop runs on
Todays == {[y |-> 2024, m |-> 2, d |-> 24], [y |-> 2023, m |-> 2, d |-> 24]}

\* the lines of the runs that only add phones and list them
LinesAdd ==
    {Words(<<Kw("add"), n, p>>) : n \in Names, p \in ValidPhones \cup {Dashed}}
    \cup {Words(<<Kw("phone"), n>>) : n \in Names}

\* the birthday strings of the runs about dates
GoodDates ==
    {<<"2", "9", ".", "0", "2", ".", "2", "0", "2", "4">>,
     <<"0", "1", ".", "0", "1", ".", "1", "9", "9", "0">>,
     <<"6", ".", "1", ".", "2", "0", "0", "1">>,
     <<"0", "7", ".", "0", "1", ".", "1", "9", "9", "0">>,
     <<"3", "1", ".", "1", "2", ".", "0", "9", "9", "9">>,
     <<"3", "0", ".", "1", "2", ".", "1", "9", "9", "9">>,
     <<"0", "3", ".", "0", "1", ".", "U+0662", "U+0660", "U+0660", "U+0660">>}
BadDates ==
    {<<"3", "1", ".", "0", "2", ".", "2", "0", "2", "4">>,
     <<"2", "9", ".", "0", "2", ".", "2", "0", "2", "3">>,
     <<"1", "5", "-", "0", "3", "-", "1", "9", "9", "0">>,
     <<"a", "b", ".", "0", "3", ".", "1", "9", "9", "0">>,
     <<"1", "5", ".", "0", "3", ".", "9", "0">>,
     <<"0", "1", ".", "0", "1", ".", "1", "9", "9", "0", "0">>,
     <<"0", "0", ".", "0", "3", ".", "1", "9", "9", "0">>,
     <<"1", "5", ".", "1", "3", ".", "1", "9", "9", "0">>,
     <<"0", "1", ".", "0", "1", ".", "0", "0", "0", "0">>,
     <<"0", "U+0665", ".", "0", "3", ".", "1", "9", "9", "0">>}

LinesDates ==
    {Words(<<Kw("add-birthday"), NameAl, s>>) : s \in GoodDates \cup BadDates}
    \cup {Words(<<Kw("add-birthday"), NameBo, s>>) :
              s \in {BdayLeap, <<"0", "1", ".", "0", "1", ".", "1", "9", "9", "0">>, BdayImpossible}}
    \cup {Words(<<Kw("show-birthday"), n>>) : n \in Names}
    \cup {Kw("birthdays")}

\* the days of the runs about dates: around the turn of 2023 and the end of February 2024
TodaysDates ==
    {[y |-> 2023, m |-> 12, d |-> 25], [y |-> 2023, m |-> 12, d |-> 30],
     [y |-> 2023, m |-> 12, d |-> 31], [y |-> 2024, m |-> 1, d |-> 1],
     [y |-> 2024, m |-> 1, d |-> 2],
     [y |-> 2024, m |-> 2, d |-> 23], [y |-> 2024, m |-> 3, d |-> 1]}

\* the "birthday" strings of the users handed to get_upcoming_birthdays
UserBirthdays ==
    {<<"1", "9", "9", "0", ".", "0", "1", ".", "0", "1">>,
     <<"1", "9", "9", "9", ".", "1", "2", ".", "3", "0">>,
     <<"1", "9", "9", "0", ".", "1", "2", ".", "3", "1">>,
     <<"2", "0", "0", "0", ".", "0", "1", ".", "0", "6">>,
     <<"U+0662", "U+0660", "U+0660", "U+0660", ".", "0", "1", ".", "0", "7">>,
     <<"2", "0", "0", "1", ".", "1", ".", "6">>,
     <<"2", "0", "2", "4", ".", "0", "2", ".", "2", "9">>,
     <<"0", "1", ".", "0", "1", ".", "1", "9", "9", "0">>}

\* the lists of users: none, one, or two
UserLists ==
    {<<>>}
    \cup {<<[name |-> NameAl, birthday |-> s]>> : s \in UserBirthdays}
    \cup {<<[name |-> NameAl, birthday |-> s], [name |-> NameBo, birthday |-> t]>> :
              s \in UserBirthdays, t \in UserBirthdays}

\* get_upcoming_birthdays of every list of users on every day, computed once
Upcoming ==
    [t \in TodaysDates |->
        [users \in UserLists |-> get_upcoming_birthdays(users, t)] @@ <<>>] @@ <<>>

AllLines == Lines \cup LinesAdd \cup LinesDates

\* parse_input of every line, computed once
Parsed == [l \in AllLines |-> parse_input(l)] @@ <<>>

\* the lines with user_input.strip() empty
BlankLines == {l \in AllLines : Split(l) = <<>>}

\* ------------------------------------------------------------ the body of the loop

\* what one iteration leaves: the book, the text printed, whether the loop goes
\* on, and the entries a birthdays listing shows
Iteration(b, t, run, up) == [book |-> b, text |-> t, running |-> run, upcoming |-> up]

\* print(handler(args, book)); an exception input_error let through ends main
print(r, up) ==
    IF r.raised = "" THEN Iteration(r.book, r.text, TRUE, up)
    ELSE Iteration(r.book, "Traceback (most recent call last): " \o r.raised, FALSE, {})

\* the branch of the if/elif chain of main a line takes
Branch(l) == IF l \in BlankLines THEN "blank" ELSE Parsed[l].command

\* ------------------------------------------------------------ state

VARIABLES
    book,       \* the AddressBook of main: its Records in insertion order
    line,       \* user_input: the line the loop read last
    output,     \* what the loop printed last
    upcoming,   \* the entries of `upcoming` the last output lists (birthdays)
    ret,        \* the last call a caller other than main made, and what it returned or raised
    running,    \* FALSE once the loop has ended
    today,      \* datetime.today().date()
    added       \* history: per name the phones successful add commands appended

vars == <<book, line, output, upcoming, ret, running, today, added>>

Idle == [call |-> "idle", kind |-> "idle", days |-> 0, name |-> <<>>, users |-> <<>>, list |-> <<>>,
         text |-> ""]

InitOn(days) ==
    /\ book = <<>>
    /\ line = <<>>
    /\ output = "Welcome to the assistant bot!"
    /\ upcoming = {}
    /\ ret = Idle
    /\ running = TRUE
    /\ today \in days
    /\ added = [n \in Names |-> <<>>]

Init == InitOn(Todays)

\* the model keeps at most MaxPhones phones per Record
Bounded(b) == \A i \in DOMAIN b : Len(b[i].phones) <= MaxPhones

\* the loop has read l, and its body has left `it`
Apply(l, it) ==
    /\ running
    /\ Bounded(it.book)
    /\ book' = it.book
    /\ line' = l
    /\ output' = it.text
    /\ upcoming' = it.upcoming
    /\ running' = it.running
    /\ ret' = Idle
    /\ UNCHANGED today

\* ------------------------------------------------------------ the branches of main

BlankStep(l) ==
    /\ Branch(l) = "blank"
    /\ Apply(l, Iteration(book, "Please enter a command. Example: " \o Template("add"), TRUE, {}))

QuitStep(l) ==
    /\ Branch(l) \in {"close", "exit"}
    /\ Apply(l, Iteration(book, "Good bye!", FALSE, {}))

HelloStep(l) ==
    /\ Branch(l) = "hello"
    /\ Apply(l, print(Returns(book, "How can I help you?"), {}))

AddStep(l) ==
    /\ Branch(l) = "add"
    /\ Apply(l, print(input_error(add_contact(Parsed[l].args, book)), {}))

ChangeStep(l) ==
    /\ Branch(l) = "change"
    /\ Apply(l, print(input_error(change_phone(Parsed[l].args, book)), {}))

PhoneStep(l) ==
    /\ Branch(l) = "phone"
    /\ Apply(l, print(input_error(show_phone(Parsed[l].args, book)), {}))

AllStep(l) ==
    /\ Branch(l) = "all"
    /\ Apply(l, print(input_error(show_all(Parsed[l].args, book)), {}))

AddBirthdayStep(l) ==
    /\ Branch(l) = "add-birthday"
    /\ Apply(l, print(input_error(add_birthday(Parsed[l].args, book)), {}))

ShowBirthdayStep(l) ==
    /\ Branch(l) = "show-birthday"
    /\ Apply(l, print(input_error(show_birthday(Parsed[l].args, book)), {}))

BirthdaysStep(l) ==
    /\ Branch(l) = "birthdays"
    /\ Apply(l, print(input_error(birthdays(Parsed[l].args, book, today)),
                      birthdays_listed(Parsed[l].args, book, today)))

HelpStep(l) ==
    /\ Branch(l) = "help"
    /\ Apply(l, print(input_error(show_commands(Parsed[l].args, book)), {}))

UnknownStep(l) ==
    /\ Branch(l) = "None"
    /\ Apply(l, print(Returns(book, format_unknown_command_message(Parsed[l].original)), {}))

\* ------------------------------------------------------------ the command loop

Blank == \E l \in Lines : BlankStep(l) /\ UNCHANGED added
Quit == \E l \in Lines : QuitStep(l) /\ UNCHANGED added
Hello == \E l \in Lines : HelloStep(l) /\ UNCHANGED added
Add == \E l \in Lines : AddStep(l) /\ UNCHANGED added
Change == \E l \in Lines : ChangeStep(l) /\ UNCHANGED added
Phone == \E l \in Lines : PhoneStep(l) /\ UNCHANGED added
All == \E l \in Lines : AllStep(l) /\ UNCHANGED added
AddBirthday == \E l \in Lines : AddBirthdayStep(l) /\ UNCHANGED added
ShowBirthday == \E l \in Lines : ShowBirthdayStep(l) /\ UNCHANGED added
Birthdays == \E l \in Lines : BirthdaysStep(l) /\ UNCHANGED added
Help == \E l \in Lines : HelpStep(l) /\ UNCHANGED added
Unknown == \E l \in Lines : UnknownStep(l) /\ UNCHANGED added

Next ==
    \/ Blank \/ Quit \/ Hello \/ Add \/ Change \/ Phone \/ All
    \/ AddBirthday \/ ShowBirthday \/ Birthdays \/ Help \/ Unknown

Spec == Init /\ [][Next]_vars

\* ------------------------------------------------------------ runs of add and phone

\* add, with the phone a successful add appended written to the history
AddLogged ==
    \E l \in LinesAdd :
        /\ AddStep(l)
        /\ added' = IF output' \in {"Contact added.", "Contact updated."}
                    THEN [added EXCEPT ![Parsed[l].args[1]] = Append(@, Parsed[l].args[2])]
                    ELSE added

PhoneLogged == \E l \in LinesAdd : PhoneStep(l) /\ UNCHANGED added

NextAdd == AddLogged \/ PhoneLogged

SpecAdd == Init /\ [][NextAdd]_vars

\* ------------------------------------------------------------ runs about dates

AddBirthdayDates == \E l \in LinesDates : AddBirthdayStep(l) /\ UNCHANGED added
ShowBirthdayDates == \E l \in LinesDates : ShowBirthdayStep(l) /\ UNCHANGED added
BirthdaysDates == \E l \in LinesDates : BirthdaysStep(l) /\ UNCHANGED added

\* a caller asks a Record of the book for days_to_birthday
DaysToBirthday ==
    \E i \in DOMAIN book :
        /\ running
        /\ ret' = [call |-> "days_to_birthday",
                   kind |-> days_to_birthday(book[i], today).kind,
                   days |-> days_to_birthday(book[i], today).days,
                   name |-> book[i].name,
                   users |-> <<>>,
                   list |-> <<>>,
                   text |-> ""]
        /\ UNCHANGED <<book, line, output, upcoming, running, today, added>>

\* a program that imports the module calls get_upcoming_birthdays with its users;
\* main, which is the only user of the book, has read no line
GetUpcomingBirthdays ==
    /\ line = <<>>
    /\ \E users \in UserLists :
           ret' = [call |-> "get_upcoming_birthdays",
                   kind |-> IF Upcoming[today][users].raised THEN "ValueError" ELSE "list",
                   days |-> 0,
                   name |-> <<>>,
                   users |-> users,
                   list |-> Upcoming[today][users].entries,
                   text |-> ""]
    /\ UNCHANGED <<book, line, output, upcoming, running, today, added>>

InitDates == InitOn(TodaysDates)

NextDates ==
    \/ AddBirthdayDates
    \/ ShowBirthdayDates
    \/ BirthdaysDates
    \/ DaysToBirthday
    \/ GetUpcomingBirthdays

SpecDates == InitDates /\ [][NextDates]_vars

\* ------------------------------------------------------------ runs that change the book

\* what a call of delete or remove_phone left: None, or the exception and its message
Called(call, name, raised, text) ==
    [call |-> call, kind |-> IF raised = "" THEN "None" ELSE raised, days |-> 0,
     name |-> name, users |-> <<>>, list |-> <<>>, text |-> text]

\* a caller deletes the Record of a name from the book
Delete ==
    \E name \in Names \cup {NameZed} :
        /\ running
        /\ book' = delete(book, name).book
        /\ ret' = Called("delete", name, delete(book, name).raised, delete(book, name).text)
        /\ UNCHANGED <<line, output, upcoming, running, today, added>>

\* a caller removes a phone from a Record of the book
RemovePhone ==
    \E i \in DOMAIN book :
        \E phone \in ValidPhones \cup {Dashed} :
            /\ running
            /\ book' = store(book, remove_phone(book[i], phone).rec)
            /\ ret' = Called("remove_phone", book[i].name,
                             IF remove_phone(book[i], phone).ok THEN "" ELSE "ValueError",
                             remove_phone(book[i], phone).error)
            /\ UNCHANGED <<line, output, upcoming, running, today, added>>

\* every step that changes the book: the three commands that write to it, and
\* the two methods that take from it, which main never calls
NextBook == Add \/ Change \/ AddBirthday \/ Delete \/ RemovePhone

SpecBook == Init /\ [][NextBook]_vars

\* ------------------------------------------------------------ properties

\* the decimal digits, of any script, among the characters of the model: what
\* \d of the pattern ^\d{10}$ stands for
DecimalDigits ==
    {c \in AsciiChars \cup NamedChars : \E z \in Range(NdStarts) : Code(c) \in z..(z + 9)}
DecimalDigit(c) == c \in DecimalDigits

\* ten decimal digits
TenDigits(p) ==
    /\ Len(p) = 10
    /\ \A i \in 1..Len(p) : DecimalDigit(p[i])

MonthLengths == <<31, 28, 31, 30, 31, 30, 31, 31, 30, 31, 30, 31>>

\* a date of the calendar
RealDate(dt) ==
    /\ dt.y >= 1
    /\ dt.m \in 1..12
    /\ dt.d >= 1
    /\ dt.d <= MonthLengths[dt.m]
                 + (IF dt.m = 2 /\ dt.y % 4 = 0 /\ (dt.y % 100 # 0 \/ dt.y % 400 = 0) THEN 1 ELSE 0)

\* a is the same day as b or a later one
OnOrAfter(a, b) ==
    \/ a.y > b.y
    \/ a.y = b.y /\ a.m > b.m
    \/ a.y = b.y /\ a.m = b.m /\ a.d >= b.d

\* the days on or after t that have the month and day of bd
Occurrences(bd, t) ==
    {o \in {[y |-> yy, m |-> bd.m, d |-> bd.d] : yy \in t.y..(t.y + 8)} :
        RealDate(o) /\ OnOrAfter(o, t)}

\* the next occurrence of the month and day of bd on or after t
NextOccurrence(bd, t) ==
    CHOOSE o \in Occurrences(bd, t) : \A q \in Occurrences(bd, t) : OnOrAfter(q, o)

\* the days from t to the next occurrence of bd
DaysAhead(bd, t) == ToOrdinal(NextOccurrence(bd, t)) - ToOrdinal(t)

LastArgs == Parsed[line].args
PhonesOf(n) == IF Has(book, n) THEN find(book, n).phones ELSE <<>>

\* C1: every phone stored in the book is ten decimal digits, and every birthday
\* is absent or a date of the calendar.
C1_StoredFieldsValid ==
    \A i \in DOMAIN book :
        /\ \A j \in DOMAIN book[i].phones : TenDigits(book[i].phones[j])
        /\ book[i].birthday = None \/ RealDate(book[i].birthday)

\* C1 witness: a Record holds a phone and a birthday, and a command has just
\* been refused for an invalid phone or date.
C1_Witness ==
    /\ output \in {InvalidPhone, InvalidDate}
    /\ \E i \in DOMAIN book : book[i].phones # <<>> /\ book[i].birthday # None

\* C5: a change command that fails leaves the book as it was; an old number that
\* is not in the Record fails with the phone-not-found error, and an old number
\* that is there with a new one that is not ten digits fails with the
\* invalid-phone error.
C5_FailedEditKeepsPhones ==
    [][(/\ running
        /\ Branch(line') = "change"
        /\ Len(Parsed[line'].args) >= 3
        /\ Has(book, Parsed[line'].args[1]))
       => /\ (Parsed[line'].args[2] \notin Range(PhonesOf(Parsed[line'].args[1])))
                => (output' = PhoneNotFound /\ book' = book)
          /\ (/\ Parsed[line'].args[2] \in Range(PhonesOf(Parsed[line'].args[1]))
              /\ ~TenDigits(Parsed[line'].args[3]))
                => (output' = InvalidPhone /\ book' = book)
          /\ (output' # "Phone number updated.") => (book' = book)]_vars

\* C5 witness: a change has just failed on its new number, and the old number
\* is still in the Record.
C5_Witness ==
    /\ Branch(line) = "change"
    /\ output = InvalidPhone
    /\ LastArgs[2] \in Range(PhonesOf(LastArgs[1]))

\* C7: add or add-birthday with a value that fails validation reports the
\* validation error; for a new name the book gains a Record with no phones and
\* no birthday, for a known name the book stays as it was.
C7_FailedAddLeavesBareRecord ==
    [][(/\ running
        /\ Branch(line') \in {"add", "add-birthday"}
        /\ Len(Parsed[line'].args) >= 2
        /\ IF Branch(line') = "add" THEN ~TenDigits(Parsed[line'].args[2])
                                    ELSE StrpTime(Parsed[line'].args[2]) = None)
       => /\ output' = (IF Branch(line') = "add" THEN InvalidPhone ELSE InvalidDate)
          /\ book' = IF Has(book, Parsed[line'].args[1]) THEN book
                     ELSE Append(book, [name |-> Parsed[line'].args[1],
                                        phones |-> <<>>, birthday |-> None])]_vars

\* C7 witness: the only Record of the book is the bare one an add with an
\* invalid phone left behind.
C7_Witness ==
    /\ Branch(line) = "add"
    /\ output = InvalidPhone
    /\ book = <<[name |-> LastArgs[1], phones |-> <<>>, birthday |-> None]>>

QuitWords == {<<"c", "l", "o", "s", "e">>, <<"e", "x", "i", "t">>}

\* the first word of every line, in lower case; <<>> for a blank line
FirstWords ==
    [l \in AllLines |-> IF Split(l) = <<>> THEN <<>> ELSE Lower(Split(l)[1])] @@ <<>>
FirstWord(l) == FirstWords[l]

\* C8: the loop ends exactly when the first word of the line is close or exit
\* in any case, with the farewell; every other line gets a response and the
\* loop goes on, whatever error the handler raised.
C8_OnlyCloseOrExitEndsLoop ==
    [][running
       => /\ (~running') <=> (FirstWord(line') \in QuitWords)
          /\ (~running') => (output' = "Good bye!")
          /\ running' => (output' # "")]_vars

\* C8 witness: a handler raised the not-found error, and the loop is running.
C8_Witness == running /\ output = "'" \o ContactNotFound \o "'"

\* C10: a change that succeeds replaces the first entry equal to the old number,
\* in place; every other entry, the name, the birthday and every other Record
\* stay as they were.
C10_EditReplacesFirstMatch ==
    [][(running /\ Branch(line') = "change" /\ output' = "Phone number updated.")
       => /\ Len(Parsed[line'].args) >= 3
          /\ Has(book, Parsed[line'].args[1])
          /\ Parsed[line'].args[2] \in Range(PhonesOf(Parsed[line'].args[1]))
          /\ LET a == Parsed[line'].args
                 k == Slot(book, a[1])
                 first == CHOOSE i \in DOMAIN book[k].phones :
                              /\ book[k].phones[i] = a[2]
                              /\ \A j \in 1..(i - 1) : book[k].phones[j] # a[2]
             IN  /\ Len(book') = Len(book)
                 /\ \A m \in DOMAIN book : m # k => book'[m] = book[m]
                 /\ book'[k].name = book[k].name
                 /\ book'[k].birthday = book[k].birthday
                 /\ Len(book'[k].phones) = Len(book[k].phones)
                 /\ book'[k].phones[first] = a[3]
                 /\ \A j \in DOMAIN book[k].phones :
                        j # first => book'[k].phones[j] = book[k].phones[j]]_vars

\* C10 witness: a change of 0123456789 into the other valid number has just
\* succeeded on a Record that held the old number twice: the second one is
\* still there.
C10_Witness ==
    /\ Branch(line) = "change"
    /\ output = "Phone number updated."
    /\ LastArgs = <<NameAl, Phone1, Phone2>>
    /\ PhonesOf(NameAl) = <<Phone2, Phone1>>

\* the phones of a listing, "; " between them
RECURSIVE Listing(_, _)
Listing(ps, i) ==
    IF i = Len(ps) THEN Str(ps[i]) ELSE Str(ps[i]) \o "; " \o Listing(ps, i + 1)

\* C6: after successful add commands the phones of every name are the phones
\* added for it, in the order they were added, duplicates included, and the
\* phone command lists exactly those.
C6_AddAppendsInOrder ==
    /\ \A n \in Names : PhonesOf(n) = added[n]
    /\ (Branch(line) = "phone" /\ LastArgs # <<>> /\ added[LastArgs[1]] # <<>>)
           => output = Listing(added[LastArgs[1]], 1)

\* C6 witness: the same number was added twice for a name, and the phone
\* command has just listed both.
C6_Witness ==
    /\ Branch(line) = "phone"
    /\ LastArgs = <<NameAl>>
    /\ added[NameAl] = <<Phone1, Phone1>>
    /\ output = "0123456789; 0123456789"

\* a birthdays command without arguments was the last line
AfterBirthdays == Branch(line) = "birthdays" /\ LastArgs = <<>>

\* the Record qualifies: its birthday is set and comes up within six days
InWindow(rec) == rec.birthday # None /\ DaysAhead(rec.birthday, today) <= 6

\* C2: birthdays reports a contact exactly when it has a birthday whose next
\* occurrence is 0 to 6 days ahead, and answers "No upcoming birthdays." when
\* no contact has.
C2_BirthdaysReportsTheWindow ==
    AfterBirthdays
        => /\ \A i \in DOMAIN book :
                  (\E e \in upcoming : e.name = book[i].name) <=> InWindow(book[i])
           /\ (\A i \in DOMAIN book : ~InWindow(book[i])) => output = "No upcoming birthdays."

\* the date the weekend rule gives an occurrence: the Monday after for a Saturday
\* or a Sunday, the occurrence itself otherwise
Congratulation(occ) ==
    IF Weekday(occ) = 5 THEN AddDays(occ, 2)
    ELSE IF Weekday(occ) = 6 THEN AddDays(occ, 1)
    ELSE occ

\* C3: the congratulation date of a reported contact is the next occurrence of
\* the birthday, moved two days on from a Saturday and one day on from a Sunday;
\* it is never a Saturday or Sunday and never before the occurrence. This holds
\* for what birthdays reports and for what get_upcoming_birthdays returns.
C3_CongratulationSkipsWeekend ==
    /\ \A e \in upcoming :
           /\ Has(book, e.name)
           /\ find(book, e.name).birthday # None
           /\ LET occ == NextOccurrence(find(book, e.name).birthday, today)
              IN  /\ e.day = Congratulation(occ)
                  /\ Weekday(e.day) \notin {5, 6}
                  /\ OnOrAfter(e.day, occ)
    /\ \A k \in DOMAIN ret.list :
           \E i \in DOMAIN ret.users :
               /\ ret.users[i].name = ret.list[k].name
               /\ LET occ == NextOccurrence(StrpTimeYmd(ret.users[i].birthday), today)
                  IN  /\ ret.list[k].congratulation_date = StrfTimeYmd(Congratulation(occ))
                      /\ Weekday(Congratulation(occ)) \notin {5, 6}
                      /\ OnOrAfter(Congratulation(occ), occ)

\* C3 witness: birthdays reports a contact whose birthday falls on a Saturday.
C3_Witness ==
    \E e \in upcoming :
        /\ Weekday(NextOccurrence(find(book, e.name).birthday, today)) = 5
        /\ e.day = AddDays(NextOccurrence(find(book, e.name).birthday, today), 2)

\* C4: days_to_birthday returns None exactly when no birthday is set, and
\* otherwise the days from today to the next occurrence of the birthday, which
\* are not negative; it never fails.
C4_DaysToBirthday ==
    (ret.call = "days_to_birthday")
        => /\ (ret.kind = "None") <=> (find(book, ret.name).birthday = None)
           /\ (find(book, ret.name).birthday # None)
                  => /\ ret.kind = "int"
                     /\ ret.days >= 0
                     /\ ret.days = DaysAhead(find(book, ret.name).birthday, today)

\* DD.MM.YYYY: two digits, a dot, two digits, a dot, four digits, the digits
\* being 0 to 9
WellFormed(s) ==
    /\ Len(s) = 10
    /\ \A i \in {1, 2, 4, 5, 7, 8, 9, 10} : s[i] \in {"0", "1", "2", "3", "4", "5", "6", "7", "8", "9"}
    /\ s[3] = "." /\ s[6] = "."

\* the date a well-formed string denotes
Denoted(s) ==
    [y |-> IntOf(SubSeq(s, 7, 10)), m |-> IntOf(SubSeq(s, 4, 5)), d |-> IntOf(SubSeq(s, 1, 2))]

\* a valid DD.MM.YYYY string
ValidString(s) == WellFormed(s) /\ RealDate(Denoted(s))

\* a malformed string: a character that is neither a decimal digit nor the dot
\* (a wrong separator, a component that is not a number), or a date that does
\* not exist
Malformed(s) ==
    \/ \E i \in DOMAIN s : s[i] # "." /\ ~DecimalDigit(s[i])
    \/ WellFormed(s) /\ ~RealDate(Denoted(s))

\* C9: add-birthday with a valid DD.MM.YYYY string succeeds and show-birthday
\* renders the identical string; with a malformed string it fails with the
\* invalid-date error and the birthday stored before stays.
C9_BirthdayRoundTrip ==
    [][(running /\ Branch(line') = "add-birthday" /\ Len(Parsed[line'].args) >= 2)
       => /\ ValidString(Parsed[line'].args[2])
                => /\ output' = "Birthday added."
                   /\ input_error(show_birthday(<<Parsed[line'].args[1]>>, book')).text
                          = Str(Parsed[line'].args[2])
          /\ Malformed(Parsed[line'].args[2])
                => /\ output' = InvalidDate
                   /\ Has(book, Parsed[line'].args[1])
                          => find(book', Parsed[line'].args[1]).birthday
                                 = find(book, Parsed[line'].args[1]).birthday]_vars

====
